---- MODULE Spec2Model ----
(***************************************************************************)
(* Download orchestration of NovelReader (Library.cpp / Library.h): the    *)
(* task queue, the scheduler thread (ProcessDownloadQueue), the worker     *)
(* threads spawned by ExecuteDownloadTask, the progress-line parser and    *)
(* the persistent download-state store.                                    *)
(*                                                                         *)
(* Threads: the UI thread (button handlers, StartDownload), one scheduler  *)
(* thread, one worker thread per executed task.  downloadQueue is a        *)
(* std::vector that is not protected by any lock; workers and the          *)
(* scheduler hold references / iterators into its storage.  The storage is *)
(* modelled explicitly (slots, qSize, qGen) so that a reference that       *)
(* outlives a reallocation or an erase resolves to what it points at.      *)
(*                                                                         *)
(* Specifications:                                                         *)
(*   Spec        one download, every button of its row, the clock          *)
(*   SpecQueue   several downloads, scheduler and workers, no button       *)
(*   SpecLive    one download, no button, threads scheduled fairly         *)
(*   SpecTeardown  several downloads, ~Library begun at any moment         *)
(*   SpecShutdown  one download with progress lines, ~Library at any moment *)
(*   SpecRetry   one download, failed and retried, ~Library at any moment  *)
(*   SpecPause   one download paused, resumed, cancelled while lines come,  *)
(*               threads scheduled fairly                                  *)
(*   SpecStartButton  several downloads, the Start button, admission       *)
(*   SpecEnqueue StartDownload calls, the clock, the scheduler's admission *)
(*   SpecCap     more downloads than MAX_CONCURRENT_DOWNLOADS, admission   *)
(*   SpecStore   LoadDownloadStates, Pause/Resume/CancelDownload applied   *)
(*               to any state file and content library                     *)
(*   SpecRoundTrip  SaveDownloadStates and LoadDownloadStates on any store *)
(*   SpecLoad    LoadDownloadStates on absent, unparsable, malformed files *)
(*   SpecUpsert  UpdateDownloadState, Pause/Resume/CancelDownload on any   *)
(*               store                                                     *)
(***************************************************************************)
EXTENDS Integers, Sequences, FiniteSets, TLC

----------------------------------------------------------------------------
(* Bounds of the model *)

\* StartDownload calls in one run of Spec (one download, every button).
MaxStarts == 1
\* StartDownload calls in one run of SpecQueue (several downloads, no buttons).
QueueStarts == 2
\* StartDownload calls in one run of SpecCap (the scheduler's admission).
CapStarts == 4
\* Worker threads that exist (running or finished and not yet joined) at once.
MaxWorkers == 4
\* Clock advances in one run.
MaxTicks == 1
\* Button clicks in the download table in one run.
MaxClicks == 2
\* Output lines the fetchers write in one run.
MaxLines == 2
\* Output lines the fetcher writes in one run of SpecPause.
PauseLines == 3
\* Records in the state file of SpecStore.
MaxStates == 2
\* Calls of the store's functions in one run of SpecStore.
MaxCalls == 2

(* Program constants *)

MAX_CONCURRENT_DOWNLOADS == 3
\* UpdateDownloadState saves when more than this many seconds passed.
SAVE_INTERVAL == 5

----------------------------------------------------------------------------
(* Values *)

\* Titles are character sequences, so that GenerateDownloadId's sanitising
\* regex_replace can be computed.
AlNum == {"a", "b"}
\* Two titles that differ only in a character the sanitising replaces.
Titles == {<<"a", " ">>, <<"a", "_">>}
\* The title of the one download of Spec.
OneTitle == {<<"a", " ">>}
\* The title of the n-th download of SpecCap: the titles differ from each
\* other after sanitising.
NthTitle(n) == [i \in 1..n |-> "a"]

\* std::regex_replace(contentName, std::regex("[^a-zA-Z0-9]"), "_")
Sanitize(s) == [i \in 1..Len(s) |-> IF s[i] \in AlNum THEN s[i] ELSE "_"]

\* The empty string as a download id.
EmptyId == <<>>

\* typeStr + "_" + sanitized + "_" + std::to_string(time_t)
GenerateDownloadId(contentName, time) == <<"novel", Sanitize(contentName), time>>

\* Chapter counts a search result reports.
SearchTotals == {2}

\* The fetcher's output lines, by what the reader loop and ParseProgressLine
\* recognise in them.  A "progress" line contains "Progress:" and matches the
\* regex with the captured numbers cur/tot (pct%); pct = BadFloat is a capture
\* such as "." that the regex accepts and std::stof rejects.
BadFloat == -1
ProgressLines ==
    { [kind |-> "progress", cur |-> 1, tot |-> 2, pct |-> 50],
      [kind |-> "progress", cur |-> 3, tot |-> 2, pct |-> 100],
      [kind |-> "progress", cur |-> 1, tot |-> 0, pct |-> 0],
      [kind |-> "progress", cur |-> 2, tot |-> 2, pct |-> BadFloat] }
OtherLines ==
    { [kind |-> "garbled"],     \* "Progress: x/y (bad)": no regex match
      [kind |-> "complete"],    \* "... download complete" / "Successfully downloaded"
      [kind |-> "error"] }      \* contains "Error"
Lines == ProgressLines \cup OtherLines
\* The lines of the fetchers of SpecQueue.
QueueLines == {[kind |-> "progress", cur |-> 1, tot |-> 2, pct |-> 50]}

DownloadTask(id, name, start, cur, tot, st, prog) ==
    [ downloadId |-> id, novelName |-> name, startChapter |-> start,
      currentChapter |-> cur, totalChapters |-> tot,
      isActive |-> FALSE, isPaused |-> FALSE, isComplete |-> FALSE,
      status |-> st, progress |-> prog, lastError |-> "" ]

\* What a vector slot past size() holds: no task.
DeadTask == DownloadTask(EmptyId, <<>>, 1, 0, 0, "", 0)

\* CreateDownloadTask
CreateDownloadTask(title, total, startChapter, time) ==
    DownloadTask(GenerateDownloadId(title, time), title, startChapter, 0, total,
                 "Queued", 0)

DownloadState(id, name, cur, tot, paused, complete, prog, err, upd) ==
    [ id |-> id, contentName |-> name, currentChapter |-> cur,
      totalChapters |-> tot, isPaused |-> paused, isComplete |-> complete,
      progress |-> prog, lastError |-> err, lastUpdate |-> upd ]

\* A DownloadState variable that holds nothing.
NoState == DownloadState(EmptyId, <<>>, 0, 0, FALSE, FALSE, 0, "", <<0, 0>>)

----------------------------------------------------------------------------
VARIABLES
    slots,          \* storage of downloadQueue: capacity() slots
    qSize,          \* downloadQueue.size()
    qGen,           \* identity of the storage: changes when push_back reallocates
    nStarts,        \* StartDownload calls so far
    downloadManagerRunning,
    shouldTerminateDownloads,
    sched,          \* the scheduler thread (downloadThread) and its locals
    workers,        \* worker threads by handle
    activeProcesses,            \* downloadId -> ProcessInfo
    persistentDownloadStates,
    downloadStateMutex,         \* owner of the mutex, or "free"
    relock,         \* what locking a std::mutex the thread already owns does
    lastSave,       \* the static lastSave of UpdateDownloadState
    now,            \* clock, seconds
    nTicks,
    nLines,         \* lines read from fetchers so far
    nCalls,         \* requests of the user so far: clicks, calls of the store
    stateFile,      \* downloads/download_states.json
    markerFiles,    \* signal files in downloads/
    contentLibrary,
    lastCall,       \* the last function of the store called from outside
    teardown,       \* position of the UI thread in ~Library, "none" before it
    uiHung,         \* the UI thread is blocked for ever
    crashed,        \* the process was terminated
    resumeArg       \* argument of the last QueueDownloadResume call

vars == << slots, qSize, qGen, nStarts, downloadManagerRunning,
           shouldTerminateDownloads, sched, workers, activeProcesses,
           persistentDownloadStates, downloadStateMutex, relock, lastSave,
           now, nTicks, nLines, nCalls, stateFile, markerFiles, contentLibrary, lastCall, teardown,
           uiHung, crashed, resumeArg >>

----------------------------------------------------------------------------
(* downloadQueue and references into it *)

downloadQueue == SubSeq(slots, 1, qSize)

Pad(tasks, cap) == [i \in 1..cap |-> IF i <= Len(tasks) THEN tasks[i] ELSE DeadTask]

\* Capacity after a reallocating push_back (geometric growth by one half).
Grow(cap) == IF cap + (cap \div 2) > cap THEN cap + (cap \div 2) ELSE cap + 1

\* A reference (or iterator) is the storage it was taken from and a position.
Ref(i) == [gen |-> qGen, idx |-> i]
Live(r) == r.gen = qGen /\ r.idx >= 1 /\ r.idx <= qSize

\* What a read through r can see: the task in the slot, or, when r no longer
\* designates an element, whatever the memory holds.
View(r) ==
    IF Live(r) THEN {slots[r.idx]}
    ELSE {DeadTask} \cup {slots[j] : j \in 1..qSize}

\* slots after writing the fields in upd through r; a write through a
\* reference that designates no element changes no task.
WriteTask(s, r, upd) ==
    IF Live(r)
    THEN [s EXCEPT ![r.idx] =
            [f \in DOMAIN @ |-> IF f \in DOMAIN upd THEN upd[f] ELSE @[f]]]
    ELSE s


\* The vector as one value.
Queue == [slots |-> slots, size |-> qSize, gen |-> qGen]

\* push_back(task): in place while size() < capacity(), otherwise into new
\* storage, which invalidates every reference and iterator.
Reallocates(q) == q.size = Len(q.slots)
PushOnto(q, task) ==
    IF Reallocates(q)
    THEN [ slots |-> Pad(Append(SubSeq(q.slots, 1, q.size), task),
                         Grow(Len(q.slots))),
           size |-> q.size + 1, gen |-> q.gen + 1 ]
    ELSE [ slots |-> [q.slots EXCEPT ![q.size + 1] = task],
           size |-> q.size + 1, gen |-> q.gen ]

PushBack(task) ==
    /\ slots' = PushOnto(Queue, task).slots
    /\ qGen' = PushOnto(Queue, task).gen
    /\ qSize' = qSize + 1

----------------------------------------------------------------------------
(* The persistent state store *)

\* Position of the first state with this id, 0 when there is none (find_if).
RECURSIVE FindFrom(_, _, _)
FindFrom(states, id, i) ==
    IF i > Len(states) THEN 0
    ELSE IF states[i].id = id THEN i
         ELSE FindFrom(states, id, i + 1)
FindState(states, id) == FindFrom(states, id, 1)

\* system_clock time points carry a sub-second part that to_time_t drops.
TimePoint(sec, sub) == <<sec, sub>>
ToTimeT(tp) == tp[1]
FromTimeT(t) == <<t, 0>>

\* One record of the "downloads" array written by SaveDownloadStates.
StateToJson(st) ==
    [ id |-> st.id, contentName |-> st.contentName, type |-> 1,
      currentChapter |-> st.currentChapter, totalChapters |-> st.totalChapters,
      isPaused |-> st.isPaused, isComplete |-> st.isComplete,
      progress |-> st.progress, lastError |-> st.lastError,
      lastUpdate |-> ToTimeT(st.lastUpdate) ]

\* downloads/download_states.json: absent, unparsable, or a JSON document
\* whose "downloads" member, if any, is an array of records.
JsonFile(kind, downloads) == [kind |-> kind, downloads |-> downloads]
MissingFile == JsonFile("missing", <<>>)
CorruptFile == JsonFile("corrupt", <<>>)

\* The file SaveDownloadStates writes for these states.
SavedFile(states) ==
    JsonFile("json", [i \in 1..Len(states) |-> StateToJson(states[i])])

\* One record read back by LoadDownloadStates.
StateFromJson(j) ==
    DownloadState(j.id, j.contentName, j.currentChapter, j.totalChapters,
                  j.isPaused, j.isComplete, j.progress, j.lastError,
                  FromTimeT(j.lastUpdate))

\* An update that pushes the state without looking for its id.
UpsertAlwaysAppends(states, id, st) == Append(states, st)

\* UpdateDownloadState's find-or-create.
Upsert(states, id, st) ==
    IF FindState(states, id) # 0
    THEN [states EXCEPT ![FindState(states, id)] = st]
    ELSE Append(states, st)

\* SaveDownloadStates called by a thread that already holds
\* downloadStateMutex (a std::mutex): locking it again is undefined.  The
\* build decides what happens: the lock is granted again ("recursive"), the
\* lock throws std::system_error, which SaveDownloadStates catches and so
\* writes nothing ("throws"), or the thread blocks for ever ("deadlock").
RelockOutcomes == {"recursive", "throws", "deadlock"}
FileAfterNestedSave(states) ==
    IF relock = "recursive" THEN SavedFile(states) ELSE stateFile


----------------------------------------------------------------------------
(* Threads *)

NoRef == [gen |-> 0, idx |-> 0]

\* downloadThread: pc = "none" while no std::thread object exists.
NoSched == [ pc |-> "none", it |-> NoRef, end |-> 0, hasActiveDownload |-> FALSE,
             taskId |-> EmptyId, taskName |-> <<>>, thread |-> 0 ]

\* A worker handle that holds no thread.
NoWorker == [ pc |-> "free", taskId |-> EmptyId, taskName |-> <<>>, task |-> NoRef,
              state |-> NoState ]

Handles == 1..MaxWorkers

\* ProcessInfo
ProcessInfo(thread) == [thread |-> thread, shouldStop |-> FALSE, shouldTerminate |-> FALSE]

\* An unordered_map as a function; m[k] = v for a new or an existing key.
MapPut(m, k, v) == [x \in DOMAIN m \cup {k} |-> IF x = k THEN v ELSE m[x]]

\* The members as their declarations and default constructors leave them,
\* with these states in the store.
InitMembersWith(states) ==
    /\ slots = <<>>
    /\ qSize = 0
    /\ qGen = 0
    /\ nStarts = 0
    /\ downloadManagerRunning = FALSE
    /\ sched = NoSched
    /\ workers = [h \in Handles |-> NoWorker]
    /\ activeProcesses = <<>>
    /\ persistentDownloadStates = states
    /\ downloadStateMutex = "free"
    /\ lastSave = -1
    /\ now = 0
    /\ nTicks = 0
    /\ nLines = 0
    /\ nCalls = 0
    /\ lastCall = "none"
    /\ teardown = "none"
    /\ markerFiles = {}
    /\ uiHung = FALSE
    /\ crashed = FALSE
    /\ resumeArg = NoState

\* The members after construction: the store is empty.
InitMembers == InitMembersWith(<<>>)

\* The program as main() starts it: nothing ever adds to contentLibrary, and
\* the state file is only ever written.
Init ==
    /\ InitMembers
    \* the constructor does not initialise this member
    /\ shouldTerminateDownloads \in BOOLEAN
    /\ relock \in RelockOutcomes
    /\ stateFile = MissingFile
    /\ contentLibrary = {}

----------------------------------------------------------------------------
(* UI thread *)

\* StartDownloadManager.  Assigning to downloadThread destroys the std::thread
\* it held; that thread was never joined, so its destructor calls
\* std::terminate.
StartDownloadManager ==
    /\ downloadManagerRunning' = TRUE
    /\ IF sched.pc = "none"
       THEN /\ sched' = [NoSched EXCEPT !.pc = "while"]
            /\ crashed' = crashed
       ELSE /\ sched' = sched
            /\ crashed' = TRUE

\* if (!downloadManagerRunning) StartDownloadManager();
StartManagerIfStopped ==
    IF ~downloadManagerRunning
    THEN StartDownloadManager
    ELSE UNCHANGED <<downloadManagerRunning, sched, crashed>>

\* StartDownload, as far as the download queue is concerned.
StartDownloadUpTo(maxStarts, titles) ==
    \E title \in titles, total \in SearchTotals :
        /\ ~crashed
        /\ ~uiHung
        /\ teardown = "none"
        /\ nStarts < maxStarts
        /\ nStarts' = nStarts + 1
        /\ PushBack(CreateDownloadTask(title, total, 1, now))
        /\ StartManagerIfStopped
        /\ UNCHANGED << shouldTerminateDownloads, workers, activeProcesses,
                        persistentDownloadStates, downloadStateMutex, relock,
                        lastSave, now, nTicks, nLines, nCalls, stateFile, markerFiles,
                        contentLibrary, lastCall, teardown, uiHung, resumeArg >>

StartDownload == StartDownloadUpTo(MaxStarts, OneTitle)

\* The id RenderTaskActions passes to Pause/Resume/CancelDownload.
ActionId(task) ==
    IF task.downloadId = EmptyId
    THEN GenerateDownloadId(task.novelName, now)
    ELSE task.downloadId

\* processIt->second.<flag>.store(true) when the id has a process entry.
SetFlag(procs, id, flag) ==
    IF id \in DOMAIN procs
    THEN [procs EXCEPT ![id] = [@ EXCEPT ![flag] = TRUE]]
    ELSE procs

\* PauseDownload(downloadId): the store, the process entry, the marker file.
PauseDownload(id) ==
    LET k == FindState(persistentDownloadStates, id)
        paused == [persistentDownloadStates EXCEPT ![k].isPaused = TRUE]
    IN  /\ downloadStateMutex = "free"
        /\ IF k = 0
           THEN UNCHANGED << persistentDownloadStates, stateFile, activeProcesses,
                             markerFiles, downloadStateMutex, uiHung >>
           ELSE IF relock = "deadlock"
           THEN \* blocked inside SaveDownloadStates, holding the mutex
                /\ persistentDownloadStates' = paused
                /\ downloadStateMutex' = "ui"
                /\ uiHung' = TRUE
                /\ UNCHANGED <<stateFile, activeProcesses, markerFiles>>
           ELSE /\ persistentDownloadStates' = paused
                /\ stateFile' = FileAfterNestedSave(paused)
                /\ activeProcesses' = SetFlag(activeProcesses, id, "shouldStop")
                /\ markerFiles' = markerFiles \cup {<<"pause", id>>}
                /\ UNCHANGED <<downloadStateMutex, uiHung>>

\* CancelDownload(downloadId)
CancelDownload(id) ==
    LET k == FindState(persistentDownloadStates, id)
        cancelled == [persistentDownloadStates EXCEPT
                         ![k].isComplete = TRUE,
                         ![k].lastError = "Cancelled by user"]
    IN  /\ downloadStateMutex = "free"
        /\ IF k = 0
           THEN UNCHANGED << persistentDownloadStates, stateFile, activeProcesses,
                             markerFiles, downloadStateMutex, uiHung >>
           ELSE IF relock = "deadlock"
           THEN /\ persistentDownloadStates' = cancelled
                /\ downloadStateMutex' = "ui"
                /\ uiHung' = TRUE
                /\ UNCHANGED <<stateFile, activeProcesses, markerFiles>>
           ELSE /\ persistentDownloadStates' = cancelled
                /\ stateFile' = FileAfterNestedSave(cancelled)
                /\ activeProcesses' = SetFlag(activeProcesses, id, "shouldTerminate")
                /\ markerFiles' = markerFiles \cup {<<"cancel", id>>}
                /\ UNCHANGED <<downloadStateMutex, uiHung>>

\* A resume that starts again at the chapter already reached.
ResumeTaskSameChapter(state) ==
    DownloadTask(EmptyId, state.contentName, state.currentChapter,
                 state.currentChapter, state.totalChapters, "Resuming",
                 state.progress)

\* The task QueueDownloadResume builds from a saved state.
ResumeTask(state) ==
    DownloadTask(EmptyId, state.contentName, state.currentChapter + 1,
                 state.currentChapter, state.totalChapters, "Resuming",
                 state.progress)

\* QueueDownloadResume(state): the queue afterwards.  A task is queued only
\* for a state whose content item is found in contentLibrary.
QueueDownloadResume(q, state) ==
    IF state.contentName \in contentLibrary
    THEN PushOnto(q, ResumeTask(state))
    ELSE q

\* ResumeDownload's test: a state with this id exists and is paused.
CanResume(states, id) ==
    FindState(states, id) # 0 /\ states[FindState(states, id)].isPaused

\* it->isPaused = false; it->lastError.clear();
Resumed(states, id) ==
    [states EXCEPT ![FindState(states, id)].isPaused = FALSE,
                   ![FindState(states, id)].lastError = ""]

\* What the Resume button writes into its row after ResumeDownload returned;
\* row 0 is a call that comes from no row.
AfterResume(s, row) ==
    IF row = 0 THEN s
    ELSE [s EXCEPT ![row].isPaused = FALSE, ![row].status = "Resuming"]

\* ResumeDownload(downloadId) called on the UI thread for this row; the
\* caller then writes into downloadQueue[row].
ResumeDownload(id, row) ==
    LET resumed == Resumed(persistentDownloadStates, id)
        state == resumed[FindState(persistentDownloadStates, id)]
        q == QueueDownloadResume(Queue, state)
    IN  /\ downloadStateMutex = "free"
        /\ IF ~CanResume(persistentDownloadStates, id)
           THEN /\ slots' = AfterResume(slots, row)
                /\ UNCHANGED << qSize, qGen, persistentDownloadStates, stateFile,
                                markerFiles, downloadStateMutex, uiHung, resumeArg,
                                downloadManagerRunning, sched, crashed >>
           ELSE IF relock = "deadlock"
           THEN \* blocked inside SaveDownloadStates, holding the mutex
                /\ persistentDownloadStates' = resumed
                /\ downloadStateMutex' = "ui"
                /\ uiHung' = TRUE
                /\ UNCHANGED << slots, qSize, qGen, stateFile, markerFiles, resumeArg,
                                downloadManagerRunning, sched, crashed >>
           ELSE /\ persistentDownloadStates' = resumed
                /\ stateFile' = FileAfterNestedSave(resumed)
                /\ markerFiles' = markerFiles \ {<<"pause", id>>}
                /\ resumeArg' = state
                /\ qSize' = q.size
                /\ qGen' = q.gen
                /\ UNCHANGED <<downloadStateMutex, uiHung>>
                /\ slots' = AfterResume(q.slots, row)
                /\ IF q.size > qSize
                   THEN StartManagerIfStopped
                   ELSE UNCHANGED <<downloadManagerRunning, sched, crashed>>

\* RenderTaskActions: what the buttons of row i do.
Row(i) == slots[i]

\* A button of row i is clicked.
Click(i) ==
    /\ ~crashed
    /\ ~uiHung
    /\ teardown = "none"
    /\ i \in 1..qSize
    /\ nCalls < MaxClicks
    /\ nCalls' = nCalls + 1

ClickResume(i) ==
    /\ Click(i)
    /\ ~Row(i).isComplete /\ Row(i).isPaused
    /\ ResumeDownload(ActionId(Row(i)), i)
    /\ UNCHANGED << nStarts, shouldTerminateDownloads, workers, activeProcesses,
                        relock, lastSave, now, nTicks, nLines, contentLibrary, lastCall, teardown >>

ClickPause(i) ==
    /\ Click(i)
    /\ ~Row(i).isComplete /\ ~Row(i).isPaused /\ Row(i).isActive
    /\ PauseDownload(ActionId(Row(i)))
    /\ slots' = IF uiHung' THEN slots
                ELSE [slots EXCEPT ![i].isPaused = TRUE, ![i].status = "Pausing..."]
    /\ UNCHANGED << qSize, qGen, nStarts, downloadManagerRunning,
                    shouldTerminateDownloads, sched, workers, relock, lastSave,
                    now, nTicks, nLines, contentLibrary, lastCall, teardown, crashed, resumeArg >>

ClickStart(i) ==
    /\ Click(i)
    /\ ~Row(i).isComplete /\ ~Row(i).isPaused /\ ~Row(i).isActive
    /\ slots' = [slots EXCEPT ![i].status = "Starting..."]
    /\ StartManagerIfStopped
    /\ UNCHANGED << qSize, qGen, nStarts, shouldTerminateDownloads, workers,
                    activeProcesses, persistentDownloadStates, downloadStateMutex,
                    relock, lastSave, now, nTicks, nLines, stateFile, markerFiles,
                    contentLibrary, lastCall, teardown, uiHung, resumeArg >>

ClickCancel(i) ==
    /\ Click(i)
    /\ ~Row(i).isComplete
    /\ CancelDownload(ActionId(Row(i)))
    /\ slots' = IF uiHung' THEN slots
                ELSE [slots EXCEPT ![i].isComplete = TRUE, ![i].status = "Cancelled"]
    /\ UNCHANGED << qSize, qGen, nStarts, downloadManagerRunning,
                    shouldTerminateDownloads, sched, workers, relock, lastSave,
                    now, nTicks, nLines, contentLibrary, lastCall, teardown, crashed, resumeArg >>

ClickRetry(i) ==
    /\ Click(i)
    /\ ~Row(i).isComplete
    /\ Row(i).lastError # "" /\ Row(i).status = "Failed"
    /\ slots' = [slots EXCEPT ![i].isComplete = FALSE, ![i].isPaused = FALSE,
                              ![i].isActive = FALSE, ![i].status = "Queued",
                              ![i].progress = 0, ![i].lastError = ""]
    /\ StartManagerIfStopped
    /\ UNCHANGED << qSize, qGen, nStarts, shouldTerminateDownloads, workers,
                    activeProcesses, persistentDownloadStates, downloadStateMutex,
                    relock, lastSave, now, nTicks, nLines, stateFile, markerFiles,
                    contentLibrary, lastCall, teardown, uiHung, resumeArg >>

\* downloadQueue.erase(downloadQueue.begin() + index)
ClickRemove(i) ==
    /\ Click(i)
    /\ Row(i).isComplete
    /\ slots' = Pad([j \in 1..(qSize - 1) |->
                        IF j < i THEN slots[j] ELSE slots[j + 1]], Len(slots))
    /\ qSize' = qSize - 1
    /\ UNCHANGED << qGen, nStarts, downloadManagerRunning, shouldTerminateDownloads,
                    sched, workers, activeProcesses, persistentDownloadStates,
                    downloadStateMutex, relock, lastSave, now, nTicks, nLines, stateFile,
                    markerFiles, contentLibrary, lastCall, teardown, uiHung, crashed, resumeArg >>


----------------------------------------------------------------------------
(* Scheduler thread: ProcessDownloadQueue *)

\* HasQueuedDownloads
HasQueuedDownloads ==
    \E i \in 1..qSize : ~slots[i].isComplete /\ ~slots[i].isPaused

SchedUnchanged ==
    UNCHANGED << nStarts, shouldTerminateDownloads, persistentDownloadStates,
                 relock, lastSave, now, nTicks, nLines, nCalls, stateFile, markerFiles,
                 contentLibrary, lastCall, teardown, uiHung, crashed, resumeArg >>

\* while (downloadManagerRunning && !shouldTerminateDownloads); on entry the
\* range-for takes begin() and end() of downloadQueue.
SchedWhile ==
    /\ ~crashed
    /\ sched.pc = "while"
    /\ IF downloadManagerRunning /\ ~shouldTerminateDownloads
       THEN sched' = [sched EXCEPT !.pc = "scan", !.it = Ref(1), !.end = qSize + 1,
                                   !.hasActiveDownload = FALSE]
       ELSE sched' = [sched EXCEPT !.pc = "exit"]
    /\ SchedUnchanged
    /\ UNCHANGED << slots, qSize, qGen, downloadManagerRunning, workers,
                    activeProcesses, downloadStateMutex >>

\* One iteration of the range-for up to the call of ExecuteDownloadTask.
SchedScan ==
    /\ ~crashed
    /\ sched.pc = "scan"
    /\ IF sched.it.idx = sched.end
       THEN sched' = [sched EXCEPT !.pc = "cleanup"]
       ELSE \E task \in View(sched.it) :
              IF task.isComplete \/ task.isPaused
              THEN sched' = [sched EXCEPT !.it.idx = @ + 1]
              ELSE IF task.isActive
              THEN sched' = [sched EXCEPT !.it.idx = @ + 1,
                                          !.hasActiveDownload = TRUE]
              ELSE IF ~task.isPaused /\ task.status \in {"Queued", "Starting"}
              THEN sched' = [sched EXCEPT !.pc = "execute"]
              ELSE sched' = [sched EXCEPT !.it.idx = @ + 1]
    /\ SchedUnchanged
    /\ UNCHANGED << slots, qSize, qGen, downloadManagerRunning, workers,
                    activeProcesses, downloadStateMutex >>

\* ExecuteDownloadTask(task) up to taking downloadStateMutex.
ExecuteDownloadTask ==
    /\ ~crashed
    /\ sched.pc = "execute"
    /\ IF shouldTerminateDownloads
       THEN /\ sched' = [sched EXCEPT !.pc = "scan", !.it.idx = @ + 1]
            /\ slots' = slots
       ELSE \E task \in View(sched.it) :
              LET id == IF task.downloadId = EmptyId
                        THEN GenerateDownloadId(task.novelName, now)
                        ELSE task.downloadId
              IN  /\ slots' = WriteTask(slots, sched.it,
                                  [isActive |-> TRUE, status |-> "Downloading",
                                   downloadId |-> id])
                  /\ sched' = [sched EXCEPT !.pc = "lock", !.taskId = id,
                                            !.taskName = task.novelName]
    /\ SchedUnchanged
    /\ UNCHANGED << qSize, qGen, downloadManagerRunning, workers, activeProcesses,
                    downloadStateMutex >>

FreeHandles == {h \in Handles : workers[h].pc = "free"}

\* std::lock_guard lock(downloadStateMutex); the worker thread is created and
\* starts running.
ExecuteSpawn ==
    /\ ~crashed
    /\ sched.pc = "lock"
    /\ downloadStateMutex = "free"
    /\ FreeHandles # {}
    /\ LET h == CHOOSE x \in FreeHandles : \A y \in FreeHandles : x <= y
       IN  /\ workers' = [workers EXCEPT ![h] =
                            [ pc |-> "start", taskId |-> sched.taskId,
                              taskName |-> sched.taskName, task |-> sched.it,
                              state |-> NoState ]]
           /\ sched' = [sched EXCEPT !.pc = "store", !.thread = h]
    /\ downloadStateMutex' = "sched"
    /\ SchedUnchanged
    /\ UNCHANGED <<slots, qSize, qGen, downloadManagerRunning, activeProcesses>>

\* A join that returns although the thread is still running.
ThreadReturnedOrRunning(w) == TRUE

\* thread->join() returns once the thread function has returned.
ThreadReturned(w) == w.pc = "done"

\* activeProcesses[task.downloadId] = std::move(processInfo): ProcessInfo's
\* move assignment joins the thread of the entry it replaces; then
\* ExecuteDownloadTask returns true, the lock is released and the scan breaks.
ExecuteStore ==
    /\ ~crashed
    /\ sched.pc = "store"
    /\ \E task \in View(sched.it) :
         LET id == task.downloadId
             old == IF id \in DOMAIN activeProcesses
                    THEN activeProcesses[id].thread ELSE 0
         IN  /\ old # 0 => ThreadReturned(workers[old])  \* thread->join()
             /\ workers' = IF old # 0 THEN [workers EXCEPT ![old] = NoWorker]
                           ELSE workers
             /\ activeProcesses' = MapPut(activeProcesses, id, ProcessInfo(sched.thread))
    /\ downloadStateMutex' = "free"
    /\ sched' = [sched EXCEPT !.pc = "cleanup", !.hasActiveDownload = TRUE,
                              !.thread = 0]
    /\ SchedUnchanged
    /\ UNCHANGED <<slots, qSize, qGen, downloadManagerRunning>>

\* erase(remove_if(... isComplete && status == "Complete" ...))
SchedCleanup ==
    /\ ~crashed
    /\ sched.pc = "cleanup"
    /\ LET Kept(t) == ~(t.isComplete /\ t.status = "Complete")
           kept == SelectSeq(downloadQueue, Kept)
       IN  /\ slots' = Pad(kept, Len(slots))
           /\ qSize' = Len(kept)
    /\ sched' = [sched EXCEPT !.pc = "check"]
    /\ SchedUnchanged
    /\ UNCHANGED << qGen, downloadManagerRunning, workers, activeProcesses,
                    downloadStateMutex >>

\* if (!hasActiveDownload && !HasQueuedDownloads()) ... else sleep_for(500ms)
SchedCheck ==
    /\ ~crashed
    /\ sched.pc = "check"
    /\ IF ~sched.hasActiveDownload /\ ~HasQueuedDownloads
       THEN sched' = [sched EXCEPT !.pc = "stop"]
       ELSE sched' = [sched EXCEPT !.pc = "while"]
    /\ SchedUnchanged
    /\ UNCHANGED << slots, qSize, qGen, downloadManagerRunning, workers,
                    activeProcesses, downloadStateMutex >>

\* downloadManagerRunning = false; break; the thread function returns.
SchedStop ==
    /\ ~crashed
    /\ sched.pc = "stop"
    /\ downloadManagerRunning' = FALSE
    /\ sched' = [sched EXCEPT !.pc = "exit"]
    /\ SchedUnchanged
    /\ UNCHANGED << slots, qSize, qGen, workers, activeProcesses,
                    downloadStateMutex >>


----------------------------------------------------------------------------
(* Worker threads: the lambda of ExecuteDownloadTask *)

\* std::chrono::system_clock::now(): some instant within the current second.
ClockNow == TimePoint(now, 1)

WorkerUnchanged ==
    UNCHANGED << qSize, qGen, nStarts, nCalls, downloadManagerRunning,
                 shouldTerminateDownloads, sched, activeProcesses, relock, now,
                 nTicks, markerFiles, contentLibrary, lastCall, teardown, uiHung, crashed, resumeArg >>

\* The task as the worker reads it back after writing upd through its
\* reference: what it wrote, over what the memory holds.
ReadBack(v, upd) == [f \in DOMAIN v |-> IF f \in DOMAIN upd THEN upd[f] ELSE v[f]]

\* popen; a null pipe is the spawn failure.
WorkerSpawn(h) ==
    /\ ~crashed
    /\ workers[h].pc = "start"
    /\ \/ /\ workers' = [workers EXCEPT ![h].pc = "read"]
          /\ slots' = slots
       \/ /\ workers' = [workers EXCEPT ![h].pc = "done"]
          /\ slots' = WriteTask(slots, workers[h].task,
                          [isActive |-> FALSE, status |-> "Failed",
                           lastError |-> "Failed to start Python process"])
    /\ nLines' = nLines
    /\ WorkerUnchanged
    /\ UNCHANGED <<persistentDownloadStates, downloadStateMutex, lastSave, stateFile>>

\* What ParseProgressLine writes into the task for a line that contains
\* "Progress:".  std::stof throws after currentChapter was assigned.
ParseProgressLine(line, task) ==
    IF line.kind = "progress"
    THEN IF line.pct = BadFloat
         THEN [currentChapter |-> line.cur]
         ELSE [ currentChapter |-> line.cur, progress |-> line.pct,
                totalChapters |-> IF line.tot > 0 THEN line.tot
                                  ELSE task.totalChapters ]
    ELSE << >>      \* no regex match, no "error", no completion message

\* ParseProgressLine calls UpdateDownloadState for this line.
PushesState(line) == line.kind = "progress" /\ line.pct # BadFloat

\* What the reader loop writes into the task for a line without "Progress:".
ReaderLoopLine(line) ==
    IF line.kind = "complete"
    THEN [progress |-> 100, isComplete |-> TRUE, status |-> "Complete"]
    ELSE IF line.kind = "error"
    THEN [lastError |-> "Error line"]
    ELSE << >>

\* fgets returned a line, one of at most maxLines.
WorkerLineUpTo(h, line, maxLines) ==
    LET w == workers[h]
    IN  /\ ~crashed
        /\ w.pc = "read"
        /\ nLines < maxLines
        /\ nLines' = nLines + 1
        /\ \E v \in View(w.task) :
             LET upd == IF line.kind \in {"progress", "garbled"}
                        THEN ParseProgressLine(line, v)
                        ELSE ReaderLoopLine(line)
                 t == ReadBack(v, upd)
                 st == DownloadState(t.downloadId, t.novelName, t.currentChapter,
                                     t.totalChapters, FALSE, FALSE, t.progress,
                                     "", ClockNow)
             IN  /\ slots' = WriteTask(slots, w.task, upd)
                 /\ workers' = [workers EXCEPT
                        ![h].pc = IF PushesState(line) THEN "update" ELSE "read",
                        ![h].state = IF PushesState(line) THEN st ELSE NoState]
        /\ WorkerUnchanged
        /\ UNCHANGED << persistentDownloadStates, downloadStateMutex, lastSave,
                        stateFile >>

WorkerLine(h, line) == WorkerLineUpTo(h, line, MaxLines)

\* UpdateDownloadState(id, state) by worker h; next is where the worker goes on.
\* The save inside it is a SaveDownloadStates call with the mutex held.
UpdateDownloadState(h, next) ==
    LET w == workers[h]
        since == IF lastSave = -1 THEN now ELSE lastSave   \* static lastSave
        due == now - since > SAVE_INTERVAL
    IN  /\ downloadStateMutex = "free"
        /\ persistentDownloadStates' =
               Upsert(persistentDownloadStates, w.state.id, w.state)
        /\ IF due /\ relock = "deadlock"
           THEN /\ workers' = [workers EXCEPT ![h].pc = "hung"]
                /\ downloadStateMutex' = "worker"
                /\ lastSave' = since
                /\ stateFile' = stateFile
           ELSE /\ workers' = [workers EXCEPT ![h].pc = next, ![h].state = NoState]
                /\ downloadStateMutex' = "free"
                /\ lastSave' = IF due THEN now ELSE since
                /\ stateFile' = IF due
                                THEN FileAfterNestedSave(persistentDownloadStates')
                                ELSE stateFile

WorkerUpdate(h) ==
    /\ ~crashed
    /\ workers[h].pc = "update"
    /\ UpdateDownloadState(h, "read")
    /\ slots' = slots
    /\ nLines' = nLines
    /\ WorkerUnchanged

\* fgets returned null: pclose, then the exit handling.
WorkerExit(h, result) ==
    LET w == workers[h]
    IN  /\ ~crashed
        /\ w.pc = "read"
        /\ \E v \in View(w.task), uninit \in BOOLEAN :
             IF result = 0 /\ v.progress > 0
             THEN /\ slots' = WriteTask(slots, w.task,
                                [isActive |-> FALSE, isComplete |-> TRUE,
                                 status |-> "Complete"])
                  \* state.isPaused is never assigned
                  /\ workers' = [workers EXCEPT
                         ![h].pc = "finalUpdate",
                         ![h].state = DownloadState(w.taskId, w.taskName,
                              v.currentChapter, v.totalChapters, uninit, TRUE,
                              v.progress, "", ClockNow)]
             ELSE /\ slots' = WriteTask(slots, w.task,
                         IF v.isComplete THEN [isActive |-> FALSE]
                         ELSE [ isActive |-> FALSE, status |-> "Failed",
                                lastError |-> IF v.lastError = ""
                                              THEN "Download process failed"
                                              ELSE v.lastError ])
                  /\ workers' = [workers EXCEPT ![h].pc = "done"]
        /\ nLines' = nLines
        /\ WorkerUnchanged
        /\ UNCHANGED << persistentDownloadStates, downloadStateMutex, lastSave,
                        stateFile >>

WorkerFinalUpdate(h) ==
    /\ ~crashed
    /\ workers[h].pc = "finalUpdate"
    /\ UpdateDownloadState(h, "refresh")
    /\ slots' = slots
    /\ nLines' = nLines
    /\ WorkerUnchanged

\* RefreshNovelChapterCounts(); LoadAllNovelsFromFile(); an exception thrown
\* there reaches the lambda's catch block.
WorkerRefresh(h) ==
    /\ ~crashed
    /\ workers[h].pc = "refresh"
    /\ workers' = [workers EXCEPT ![h].pc = "done"]
    /\ \/ slots' = slots
       \/ slots' = WriteTask(slots, workers[h].task,
                       [isActive |-> FALSE, status |-> "Failed",
                        lastError |-> "exception"])
    /\ nLines' = nLines
    /\ WorkerUnchanged
    /\ UNCHANGED << persistentDownloadStates, downloadStateMutex, lastSave,
                    stateFile >>

----------------------------------------------------------------------------
(* Environment *)

\* Time passes: longer than the save interval.
Tick ==
    /\ ~crashed
    /\ nTicks < MaxTicks
    /\ nTicks' = nTicks + 1
    /\ now' = now + SAVE_INTERVAL + 1
    /\ UNCHANGED << slots, qSize, qGen, nStarts, downloadManagerRunning,
                    shouldTerminateDownloads, sched, workers, activeProcesses,
                    persistentDownloadStates, downloadStateMutex, relock, lastSave,
                    nLines, nCalls, stateFile, markerFiles, contentLibrary, lastCall, teardown, uiHung, crashed,
                    resumeArg >>

\* A thread dereferences a reference or iterator into storage that holds no
\* element any more, and the process dies of it.
DanglingAccess ==
    \/ \E h \in Handles : workers[h].pc \in {"start", "read", "refresh"}
                          /\ ~Live(workers[h].task)
    \/ /\ sched.pc \in {"scan", "execute", "store"}
       /\ sched.it.idx # sched.end
       /\ ~Live(sched.it)

Fault ==
    /\ ~crashed
    /\ DanglingAccess
    /\ crashed' = TRUE
    /\ UNCHANGED << slots, qSize, qGen, nStarts, downloadManagerRunning,
                    shouldTerminateDownloads, sched, workers, activeProcesses,
                    persistentDownloadStates, downloadStateMutex, relock, lastSave,
                    now, nTicks, nLines, nCalls, stateFile, markerFiles, contentLibrary, lastCall, teardown, uiHung,
                    resumeArg >>

----------------------------------------------------------------------------
(* Teardown: ~Library on the UI thread *)

TeardownUnchanged ==
    UNCHANGED << slots, qSize, qGen, nStarts, persistentDownloadStates, relock,
                 lastSave, now, nTicks, nLines, nCalls, contentLibrary, lastCall,
                 uiHung, crashed, resumeArg >>

\* shouldTerminateDownloads = true;
TeardownBegin ==
    /\ ~crashed
    /\ ~uiHung
    /\ teardown = "none"
    /\ shouldTerminateDownloads' = TRUE
    /\ teardown' = "save"
    /\ TeardownUnchanged
    /\ UNCHANGED << downloadManagerRunning, sched, workers, activeProcesses,
                    downloadStateMutex, stateFile, markerFiles >>

\* SaveDownloadStates(): takes and releases downloadStateMutex.
TeardownSave ==
    /\ ~crashed
    /\ teardown = "save"
    /\ downloadStateMutex = "free"
    /\ stateFile' = SavedFile(persistentDownloadStates)
    /\ teardown' = "signal"
    /\ TeardownUnchanged
    /\ UNCHANGED << shouldTerminateDownloads, downloadManagerRunning, sched, workers,
                    activeProcesses, downloadStateMutex, markerFiles >>

\* Under the mutex: shouldTerminate and a stop file for every process entry.
TeardownSignal ==
    /\ ~crashed
    /\ teardown = "signal"
    /\ downloadStateMutex = "free"
    /\ activeProcesses' = [id \in DOMAIN activeProcesses |->
                              [activeProcesses[id] EXCEPT !.shouldTerminate = TRUE]]
    /\ markerFiles' = markerFiles \cup {<<"stop", id>> : id \in DOMAIN activeProcesses}
    /\ teardown' = "stop"
    /\ TeardownUnchanged
    /\ UNCHANGED << shouldTerminateDownloads, downloadManagerRunning, sched, workers,
                    downloadStateMutex, stateFile >>

\* StopDownloadManager: the two flags.
StopDownloadManager ==
    /\ ~crashed
    /\ teardown = "stop"
    /\ shouldTerminateDownloads' = TRUE
    /\ downloadManagerRunning' = FALSE
    /\ teardown' = "joinManager"
    /\ TeardownUnchanged
    /\ UNCHANGED << sched, workers, activeProcesses, downloadStateMutex, stateFile,
                    markerFiles >>

\* StopDownloadManager: downloadThread->join(); downloadThread.reset();
JoinDownloadThread ==
    /\ ~crashed
    /\ teardown = "joinManager"
    /\ sched.pc \in {"none", "exit"}
    /\ sched' = NoSched
    /\ teardown' = "lock"
    /\ TeardownUnchanged
    /\ UNCHANGED << shouldTerminateDownloads, downloadManagerRunning, workers,
                    activeProcesses, downloadStateMutex, stateFile, markerFiles >>

\* std::lock_guard lock(downloadStateMutex) of the join block.
TeardownLock ==
    /\ ~crashed
    /\ teardown = "lock"
    /\ downloadStateMutex = "free"
    /\ downloadStateMutex' = "ui"
    /\ teardown' = "join"
    /\ TeardownUnchanged
    /\ UNCHANGED << shouldTerminateDownloads, downloadManagerRunning, sched, workers,
                    activeProcesses, stateFile, markerFiles >>

\* processInfo.thread->join() for every entry, with the mutex held;
\* activeProcesses.clear(); the lock is released and the body returns.
TeardownJoin ==
    LET threads == {activeProcesses[id].thread : id \in DOMAIN activeProcesses}
    IN  /\ ~crashed
        /\ teardown = "join"
        /\ \A h \in threads : ThreadReturned(workers[h])
        /\ workers' = [h \in Handles |->
                          IF h \in threads /\ workers[h].pc = "done"
                          THEN NoWorker ELSE workers[h]]
        /\ activeProcesses' = << >>
        /\ downloadStateMutex' = "free"
        /\ teardown' = "returned"
        /\ TeardownUnchanged
        /\ UNCHANGED << shouldTerminateDownloads, downloadManagerRunning, sched,
                        stateFile, markerFiles >>

Teardown ==
    \/ TeardownBegin
    \/ TeardownSave
    \/ TeardownSignal
    \/ StopDownloadManager
    \/ JoinDownloadThread
    \/ TeardownLock
    \/ TeardownJoin

----------------------------------------------------------------------------
(* The store's functions, called one at a time on one thread *)

\* Sequences over S of length at most n.
SeqsUpTo(S, n) == UNION {[1..k -> S] : k \in 0..n}

\* Ids and records a state file can hold.
StoreIds == {GenerateDownloadId(<<"a">>, 0), GenerateDownloadId(<<"a">>, 1)}
SavedChapters == {0, 7}
SavedRecords ==
    [ id : StoreIds, contentName : {<<"a">>}, type : {1},
      currentChapter : SavedChapters, totalChapters : {9},
      isPaused : BOOLEAN, isComplete : BOOLEAN, progress : {50},
      lastError : {""}, lastUpdate : {0} ]
StoreFiles ==
    {MissingFile, CorruptFile}
        \cup {JsonFile("json", d) : d \in SeqsUpTo(SavedRecords, MaxStates)}

\* A member of a record that is not of the JSON type its reader asks for
\* (a string where stateJson.value("currentChapter", 0) expects a number):
\* value() throws json::type_error.
WrongType == -1
Malformed(j) == j.currentChapter = WrongType

\* The body of LoadDownloadStates' loop for one record of the file.  A
\* malformed record throws before anything is pushed.  The
\* ResumeDownload call is made with downloadStateMutex held: its own lock
\* attempt is the re-lock of a mutex by its owner.  "throws" reaches
\* LoadDownloadStates' catch block and ends the loop.
LoadRecord(acc, j) ==
    LET st == StateFromJson(j)
        states == Append(acc.states, st)
        resumed == Resumed(states, st.id)
        state == resumed[FindState(states, st.id)]
    IN  IF Malformed(j)
        THEN [acc EXCEPT !.outcome = "thrown"]
        ELSE IF st.isComplete \/ st.isPaused
        THEN [acc EXCEPT !.states = states]
        ELSE IF relock = "throws"
        THEN [acc EXCEPT !.states = states, !.outcome = "thrown"]
        ELSE IF relock = "deadlock"
        THEN [acc EXCEPT !.states = states, !.outcome = "hung"]
        ELSE IF ~CanResume(states, st.id)
        THEN [acc EXCEPT !.states = states]
        ELSE [acc EXCEPT !.states = resumed,
                         !.file = SavedFile(resumed),
                         !.markers = @ \ {<<"pause", st.id>>},
                         !.queue = QueueDownloadResume(@, state),
                         !.arg = state]

RECURSIVE LoadFrom(_, _, _)
LoadFrom(recs, i, acc) ==
    IF i > Len(recs) \/ acc.outcome # "ok" THEN acc
    ELSE LoadFrom(recs, i + 1, LoadRecord(acc, recs[i]))

\* A call from outside of one of the store's functions.
Call(name) ==
    /\ ~crashed
    /\ ~uiHung
    /\ nCalls < MaxCalls
    /\ nCalls' = nCalls + 1
    /\ teardown = "none"
    /\ teardown' = teardown
    /\ lastCall' = name

\* LoadDownloadStates.  A file that cannot be opened returns early; a file
\* that does not parse throws before the store is touched.
LoadDownloadStates ==
    LET end == LoadFrom(stateFile.downloads, 1,
                   [ states |-> <<>>, file |-> stateFile, markers |-> markerFiles,
                     queue |-> Queue, arg |-> resumeArg, outcome |-> "ok" ])
    IN  /\ Call("load")
        /\ IF stateFile.kind # "json"
           THEN UNCHANGED << slots, qSize, qGen, persistentDownloadStates, stateFile,
                             markerFiles, resumeArg, downloadStateMutex, uiHung,
                             downloadManagerRunning, sched, crashed >>
           ELSE /\ downloadStateMutex = "free"
                /\ persistentDownloadStates' = end.states
                /\ stateFile' = end.file
                /\ markerFiles' = end.markers
                /\ resumeArg' = end.arg
                /\ slots' = end.queue.slots
                /\ qSize' = end.queue.size
                /\ qGen' = end.queue.gen
                /\ uiHung' = (end.outcome = "hung")
                /\ downloadStateMutex' = IF end.outcome = "hung" THEN "ui" ELSE "free"
                /\ IF end.queue.size > qSize
                   THEN StartManagerIfStopped
                   ELSE UNCHANGED <<downloadManagerRunning, sched, crashed>>
        /\ UNCHANGED << nStarts, shouldTerminateDownloads, workers, activeProcesses,
                        relock, lastSave, now, nTicks, nLines, contentLibrary >>

CallPause(id) ==
    /\ Call("pause")
    /\ PauseDownload(id)
    /\ UNCHANGED << slots, qSize, qGen, nStarts, downloadManagerRunning,
                    shouldTerminateDownloads, sched, workers, relock, lastSave,
                    now, nTicks, nLines, contentLibrary, crashed, resumeArg >>

CallResume(id) ==
    /\ Call("resume")
    /\ ResumeDownload(id, 0)
    /\ UNCHANGED << nStarts, shouldTerminateDownloads, workers, activeProcesses,
                    relock, lastSave, now, nTicks, nLines, contentLibrary >>

CallCancel(id) ==
    /\ Call("cancel")
    /\ CancelDownload(id)
    /\ UNCHANGED << slots, qSize, qGen, nStarts, downloadManagerRunning,
                    shouldTerminateDownloads, sched, workers, relock, lastSave,
                    now, nTicks, nLines, contentLibrary, crashed, resumeArg >>

\* SaveDownloadStates called by a thread that does not hold the mutex.
CallSave ==
    /\ Call("save")
    /\ downloadStateMutex = "free"
    /\ stateFile' = SavedFile(persistentDownloadStates)
    /\ UNCHANGED << slots, qSize, qGen, nStarts, downloadManagerRunning,
                    shouldTerminateDownloads, sched, workers, activeProcesses,
                    persistentDownloadStates, downloadStateMutex, relock, lastSave,
                    now, nTicks, nLines, markerFiles, contentLibrary, uiHung,
                    crashed, resumeArg >>

\* UpdateDownloadState(state.id, state) called on the UI thread; the save
\* inside it is a SaveDownloadStates call with the mutex held.
CallUpdate(state) ==
    LET since == IF lastSave = -1 THEN now ELSE lastSave
        due == now - since > SAVE_INTERVAL
    IN  /\ Call("update")
        /\ downloadStateMutex = "free"
        /\ persistentDownloadStates' =
               Upsert(persistentDownloadStates, state.id, state)
        /\ IF due /\ relock = "deadlock"
           THEN /\ uiHung' = TRUE
                /\ downloadStateMutex' = "ui"
                /\ lastSave' = since
                /\ stateFile' = stateFile
           ELSE /\ uiHung' = uiHung
                /\ downloadStateMutex' = "free"
                /\ lastSave' = IF due THEN now ELSE since
                /\ stateFile' = IF due
                                THEN FileAfterNestedSave(persistentDownloadStates')
                                ELSE stateFile
        /\ UNCHANGED << slots, qSize, qGen, nStarts, downloadManagerRunning,
                        shouldTerminateDownloads, sched, workers, activeProcesses,
                        relock, now, nTicks, nLines, markerFiles, contentLibrary,
                        crashed, resumeArg >>

----------------------------------------------------------------------------
Ui ==
    \/ StartDownload
    \/ \E i \in 1..MaxStarts :
         \/ ClickPause(i)
         \/ ClickResume(i)
         \/ ClickStart(i)
         \/ ClickCancel(i)
         \/ ClickRetry(i)
         \/ ClickRemove(i)

Scheduler ==
    \/ SchedWhile
    \/ SchedScan
    \/ ExecuteDownloadTask
    \/ ExecuteSpawn
    \/ ExecuteStore
    \/ SchedCleanup
    \/ SchedCheck
    \/ SchedStop

\* The worker threads, their fetchers writing at most maxLines lines of this
\* set.
WorkerUpTo(lines, maxLines) ==
    \E h \in Handles :
        \/ WorkerSpawn(h)
        \/ \E line \in lines : WorkerLineUpTo(h, line, maxLines)
        \/ WorkerUpdate(h)
        \/ \E result \in {0, 1} : WorkerExit(h, result)
        \/ WorkerFinalUpdate(h)
        \/ WorkerRefresh(h)

Worker(lines) == WorkerUpTo(lines, MaxLines)

\* The program with one download and every button of its row.
Next == Ui \/ Scheduler \/ Worker(Lines) \/ Tick \/ Fault

Spec == Init /\ [][Next]_vars

\* Several downloads started one after the other, no button clicked; no save
\* falls due, so what re-locking the mutex does is never observed.
InitQueue == Init /\ relock = "throws"

NextQueue ==
    \/ StartDownloadUpTo(QueueStarts, OneTitle)
    \/ Scheduler
    \/ Worker(QueueLines)
    \/ Fault

SpecQueue == InitQueue /\ [][NextQueue]_vars

\* One download, no button clicked, every thread scheduled again and again:
\* the scheduler thread wakes from its sleep, a fetcher goes on writing or
\* exits and its worker thread runs.
NextLive ==
    \/ StartDownload
    \/ Scheduler
    \/ Worker(QueueLines)
    \/ Fault

FairLive == WF_vars(Scheduler) /\ WF_vars(Worker(QueueLines))

SpecLive == InitQueue /\ [][NextLive]_vars /\ FairLive

\* The scheduler thread while no download completes: it never finds the
\* queue finished.
Admission ==
    \/ SchedWhile
    \/ SchedScan
    \/ ExecuteDownloadTask
    \/ ExecuteSpawn
    \/ ExecuteStore
    \/ SchedCleanup
    \/ SchedCheck

\* The worker threads of fetchers that write nothing: a worker takes
\* downloadStateMutex only for a line it has read.
SilentWorker ==
    \E h \in Handles :
        \/ WorkerSpawn(h)
        \/ \E result \in {0, 1} : WorkerExit(h, result)

\* Several downloads and the teardown, begun at any moment.
NextTeardown ==
    \/ StartDownloadUpTo(QueueStarts, OneTitle)
    \/ Admission
    \/ SilentWorker
    \/ Fault
    \/ Teardown

SpecTeardown == InitQueue /\ [][NextTeardown]_vars

\* Downloads requested one after the other, at the same or at another time,
\* and admitted by the scheduler.
NextEnqueue ==
    \/ StartDownloadUpTo(QueueStarts, Titles)
    \/ Tick
    \/ Admission

SpecEnqueue == Init /\ [][NextEnqueue]_vars

\* The scheduler's admission of queued tasks while their fetchers run.
NextCap ==
    \/ StartDownloadUpTo(CapStarts, {NthTitle(nStarts + 1)})
    \/ Admission

SpecCap == InitQueue /\ [][NextCap]_vars

\* One download whose fetcher writes progress lines, and the teardown,
\* begun at any moment.
NextShutdown ==
    \/ StartDownload
    \/ Scheduler
    \/ Worker(QueueLines)
    \/ Teardown

SpecShutdown == InitQueue /\ [][NextShutdown]_vars

\* One download that fails and is retried, its fetchers writing nothing, and
\* the teardown begun at any moment.
NextRetry ==
    \/ StartDownload
    \/ ClickRetry(1)
    \/ Admission
    \/ SilentWorker
    \/ Teardown

SpecRetry == InitQueue /\ [][NextRetry]_vars

\* One download whose fetcher writes progress lines while the user pauses,
\* resumes or cancels it; every thread is scheduled again and again.
NextPause ==
    \/ StartDownload
    \/ ClickPause(1)
    \/ ClickResume(1)
    \/ ClickCancel(1)
    \/ Scheduler
    \/ WorkerUpTo(QueueLines, PauseLines)

FairPause == WF_vars(Scheduler) /\ WF_vars(WorkerUpTo(QueueLines, PauseLines))

SpecPause == Init /\ [][NextPause]_vars /\ FairPause

\* Several downloads started and the Start button of their rows, the
\* scheduler admitting them.
NextStartButton ==
    \/ StartDownloadUpTo(QueueStarts, OneTitle)
    \/ \E i \in 1..QueueStarts : ClickStart(i)
    \/ Admission

SpecStartButton == InitQueue /\ [][NextStartButton]_vars

\* The store's functions on any state file and any content library.
InitStore ==
    /\ InitMembers
    \* read by the scheduler thread only, which does not run here
    /\ shouldTerminateDownloads = FALSE
    /\ relock \in RelockOutcomes
    /\ stateFile \in StoreFiles
    /\ contentLibrary \in SUBSET {<<"a">>}

NextStore ==
    \/ LoadDownloadStates
    \/ \E id \in StoreIds :
         \/ CallPause(id)
         \/ CallResume(id)
         \/ CallCancel(id)

SpecStore == InitStore /\ [][NextStore]_vars

\* States the store can hold: written by the workers (neither paused nor
\* complete, or complete), paused or cancelled afterwards, updated at an
\* instant on or within a second.
StoredStates ==
    { DownloadState(id, <<"a">>, 7, 9, paused, complete, 50, "", TimePoint(0, sub)) :
        id \in StoreIds, paused \in BOOLEAN, complete \in BOOLEAN, sub \in {0, 1} }

\* The stores of at most MaxStates states: UpdateDownloadState, the only
\* code that adds a state, adds none for an id the store has.
Stores ==
    { states \in SeqsUpTo(StoredStates, MaxStates) :
        \A i, j \in 1..Len(states) : states[i].id = states[j].id => i = j }

\* SaveDownloadStates and LoadDownloadStates on any store.
InitRoundTrip ==
    /\ \E states \in Stores : InitMembersWith(states)
    /\ shouldTerminateDownloads = FALSE
    /\ relock \in RelockOutcomes
    /\ stateFile = MissingFile
    /\ contentLibrary = {}

NextRoundTrip ==
    \/ CallSave
    \/ LoadDownloadStates

SpecRoundTrip == InitRoundTrip /\ [][NextRoundTrip]_vars

\* UpdateDownloadState, PauseDownload, ResumeDownload and CancelDownload in
\* any order on any store, the clock advancing.
InitUpsert ==
    /\ \E states \in Stores : InitMembersWith(states)
    /\ shouldTerminateDownloads = FALSE
    /\ relock \in RelockOutcomes
    /\ stateFile = MissingFile
    /\ contentLibrary \in SUBSET {<<"a">>}

NextUpsert ==
    \/ \E state \in StoredStates : CallUpdate(state)
    \/ \E id \in StoreIds :
         \/ CallPause(id)
         \/ CallResume(id)
         \/ CallCancel(id)
    \/ Tick

SpecUpsert == InitUpsert /\ [][NextUpsert]_vars

\* State files as LoadDownloadStates may find them: absent, unparsable, or
\* an array in which a record may be malformed.
LoadRecords ==
    [ id : StoreIds, contentName : {<<"a">>}, type : {1},
      currentChapter : {7, WrongType}, totalChapters : {9},
      isPaused : BOOLEAN, isComplete : {FALSE}, progress : {50},
      lastError : {""}, lastUpdate : {0} ]
LoadFiles ==
    {MissingFile, CorruptFile}
        \cup {JsonFile("json", d) : d \in SeqsUpTo(LoadRecords, MaxStates)}

\* LoadDownloadStates at startup on any such file.
InitLoad ==
    /\ InitMembers
    /\ shouldTerminateDownloads = FALSE
    /\ relock \in RelockOutcomes
    /\ stateFile \in LoadFiles
    /\ contentLibrary \in SUBSET {<<"a">>}

SpecLoad == InitLoad /\ [][LoadDownloadStates]_vars

----------------------------------------------------------------------------
(* Properties *)

\* C1: the number of tasks of downloadQueue that are active never exceeds
\* MAX_CONCURRENT_DOWNLOADS, however many downloads were started.
C1_ActiveWithinCap ==
    Cardinality({i \in 1..qSize : slots[i].isActive}) <= MAX_CONCURRENT_DOWNLOADS

\* C2: downloadQueue never holds two tasks that are queued or active (not
\* complete) and carry the same downloadId.
C2_NoDuplicateId ==
    \A i, j \in 1..qSize :
        (i # j /\ ~slots[i].isComplete /\ ~slots[j].isComplete)
            => slots[i].downloadId # slots[j].downloadId

\* C3: a task cancelled while it was active stays cancelled while it is in
\* the queue, whatever its fetcher writes afterwards: the task keeps
\* isComplete, its progress and its chapter counts and does not become
\* Complete, and a durable state of its id that records the cancellation
\* keeps isComplete and "Cancelled by user".
C3_CancelSticks ==
    [][\A i \in 1..qSize :
          ( /\ qSize' = qSize /\ qGen' = qGen
            /\ slots[i].isActive /\ slots[i].isComplete
            /\ slots[i].status = "Cancelled" )
          => /\ slots'[i].isComplete
             /\ slots'[i].status # "Complete"
             /\ slots'[i].progress = slots[i].progress
             /\ slots'[i].currentChapter = slots[i].currentChapter
             /\ slots'[i].totalChapters = slots[i].totalChapters
             /\ \A k \in 1..Len(persistentDownloadStates) :
                  ( /\ persistentDownloadStates[k].id = slots[i].downloadId
                    /\ persistentDownloadStates[k].isComplete
                    /\ persistentDownloadStates[k].lastError = "Cancelled by user" )
                  => /\ k <= Len(persistentDownloadStates')
                     /\ persistentDownloadStates'[k].isComplete
                     /\ persistentDownloadStates'[k].lastError = "Cancelled by user"
      ]_vars

\* C4: a task is active only while the scheduler is starting it or a worker
\* thread for its id has yet to go through its exit handling: once the
\* fetcher is gone and the worker has finished, the task is not active.
C4_ActiveHasWorker ==
    \A i \in 1..qSize :
        slots[i].isActive
            => \/ sched.pc \in {"lock", "store"} /\ sched.taskId = slots[i].downloadId
               \/ \E h \in Handles :
                    /\ workers[h].pc \in {"start", "read", "update", "hung"}
                    /\ workers[h].taskId = slots[i].downloadId

\* C5: for every task of downloadQueue at most one of active, paused,
\* complete (isComplete with status Complete) and cancelled (isComplete with
\* status Cancelled) is true.
C5_OneStatusFlag ==
    \A i \in 1..qSize :
        Cardinality({f \in {"active", "paused", "complete", "cancelled"} :
            \/ f = "active" /\ slots[i].isActive
            \/ f = "paused" /\ slots[i].isPaused
            \/ f = "complete" /\ slots[i].isComplete /\ slots[i].status = "Complete"
            \/ f = "cancelled" /\ slots[i].isComplete /\ slots[i].status = "Cancelled"
          }) <= 1

\* C6: isActive never changes from false to true for a task whose isComplete
\* is already true.
C6_CompleteNeverActivated ==
    [][\A i \in 1..qSize :
          ( /\ qSize' = qSize /\ qGen' = qGen
            /\ slots[i].isComplete /\ ~slots[i].isActive )
          => ~slots'[i].isActive
      ]_vars

\* C7: once totalChapters is non-zero, currentChapter does not exceed it, in
\* every task of downloadQueue and in every durable state.
C7_ChapterWithinTotal ==
    /\ \A i \in 1..qSize :
         slots[i].totalChapters # 0
             => slots[i].currentChapter <= slots[i].totalChapters
    /\ \A k \in 1..Len(persistentDownloadStates) :
         persistentDownloadStates[k].totalChapters # 0
             => persistentDownloadStates[k].currentChapter
                    <= persistentDownloadStates[k].totalChapters

\* C8: while a task stays active, no step decreases its progress or its
\* currentChapter.
C8_ProgressMonotonic ==
    [][\A i \in 1..qSize :
          ( /\ qSize' = qSize /\ qGen' = qGen
            /\ slots[i].isActive /\ slots'[i].isActive )
          => /\ slots'[i].progress >= slots[i].progress
             /\ slots'[i].currentChapter >= slots[i].currentChapter
      ]_vars

\* C9: right after LoadDownloadStates at startup, with the content known to
\* the library and a build in which the nested lock is granted, a state of
\* the store has a task in downloadQueue if and only if it is neither
\* complete nor paused.
C9_RequeuedIffIncomplete ==
    ( /\ lastCall = "load" /\ nCalls = 1
      /\ ~crashed /\ relock = "recursive" /\ contentLibrary # {} )
    => \A k \in 1..Len(persistentDownloadStates) :
         LET s == persistentDownloadStates[k]
         IN  (~s.isComplete /\ ~s.isPaused)
                 <=> \E i \in 1..qSize :
                       /\ slots[i].novelName = s.contentName
                       /\ slots[i].currentChapter = s.currentChapter
                       /\ slots[i].status = "Resuming"

\* C10: every task the resume logic adds to downloadQueue starts at the
\* chapter after the currentChapter of the durable state it was made from,
\* and is neither active, paused nor complete.
C10_ResumeStartsAtNextChapter ==
    [][qSize' > qSize
          => /\ \E k \in 1..Len(persistentDownloadStates') :
                  persistentDownloadStates'[k] = resumeArg'
             /\ slots'[qSize'].novelName = resumeArg'.contentName
             /\ slots'[qSize'].startChapter = resumeArg'.currentChapter + 1
             /\ \A i \in (qSize + 1)..qSize' :
                  /\ ~slots'[i].isActive
                  /\ ~slots'[i].isPaused
                  /\ ~slots'[i].isComplete
                  /\ \E k \in 1..Len(persistentDownloadStates') :
                       /\ persistentDownloadStates'[k].contentName = slots'[i].novelName
                       /\ slots'[i].startChapter
                              = persistentDownloadStates'[k].currentChapter + 1
      ]_vars

\* A state saved at chapter 7 was resumed: its task, starting at chapter 8,
\* is the last of the queue.
C10_Witness ==
    /\ qSize > 0
    /\ resumeArg.currentChapter = 7
    /\ slots[qSize].status = "Resuming"
    /\ slots[qSize].startChapter = 8

\* C11: a ResumeDownload call leaves every durable state that is not paused,
\* or that is complete, as it was, and adds a task to downloadQueue only for
\* a state that was paused and not complete.
C11_ResumeGatedByFlags ==
    [][(lastCall' = "resume" /\ nCalls' # nCalls)
          => /\ Len(persistentDownloadStates') = Len(persistentDownloadStates)
             /\ \A k \in 1..Len(persistentDownloadStates) :
                  (~persistentDownloadStates[k].isPaused
                       \/ persistentDownloadStates[k].isComplete)
                  => persistentDownloadStates'[k] = persistentDownloadStates[k]
             /\ qSize' > qSize
                  => \E k \in 1..Len(persistentDownloadStates) :
                       /\ persistentDownloadStates[k].isPaused
                       /\ ~persistentDownloadStates[k].isComplete
                       /\ persistentDownloadStates'[k] # persistentDownloadStates[k]
      ]_vars

\* C12: LoadDownloadStates right after SaveDownloadStates returns with a
\* store that has the saved states in the saved order, equal in every field
\* that is written (lastUpdate as epoch seconds); the empty store included.
C12_SaveLoadRoundTrip ==
    [][(lastCall = "save" /\ lastCall' = "load")
          => /\ ~uiHung'
             /\ Len(persistentDownloadStates') = Len(persistentDownloadStates)
             /\ \A k \in 1..Len(persistentDownloadStates) :
                  StateToJson(persistentDownloadStates'[k])
                      = StateToJson(persistentDownloadStates[k])
      ]_vars

\* C13: LoadDownloadStates on a state file that is absent, does not parse or
\* holds a malformed record returns with an empty store and leaves
\* downloadQueue as it was.
C13_BadFileLoadsNothing ==
    [][( /\ lastCall' = "load" /\ nCalls' # nCalls
         /\ \/ stateFile.kind # "json"
            \/ \E i \in 1..Len(stateFile.downloads) : Malformed(stateFile.downloads[i]) )
          => /\ ~uiHung'
             /\ persistentDownloadStates' = <<>>
             /\ qSize' = qSize
      ]_vars

\* No task of downloadQueue is queued or active: each is paused, complete
\* (or cancelled) or failed, or the queue is empty.
NothingToDo ==
    \A i \in 1..qSize :
        /\ ~slots[i].isActive
        /\ slots[i].isPaused \/ slots[i].isComplete \/ slots[i].status = "Failed"

\* C14: whenever no task is queued or active, the scheduler eventually stops
\* itself (downloadManagerRunning becomes false), unless a task becomes
\* queued or active again.
C14_IdleSchedulerStops ==
    NothingToDo ~> (~downloadManagerRunning \/ ~NothingToDo \/ crashed)

\* C15: a task that waits in downloadQueue as Queued has a scheduler thread
\* that has not returned and will look at it: no enqueued task is left with
\* no scheduler running.
C15_QueuedHasScheduler ==
    \A i \in 1..qSize :
        ( /\ slots[i].status = "Queued"
          /\ ~slots[i].isActive /\ ~slots[i].isPaused /\ ~slots[i].isComplete
          /\ ~shouldTerminateDownloads )
        => sched.pc \notin {"none", "exit"}

\* C16: when ~Library has returned, every worker thread that was spawned has
\* been joined: no worker handle holds a thread, running or finished, and
\* the scheduler thread is gone too.
C16_TeardownJoinsWorkers ==
    teardown = "returned"
        => /\ \A h \in Handles : workers[h].pc = "free"
           /\ sched.pc = "none"
           /\ ~crashed

\* Teardown returned after two downloads were started, the first of them
\* failed and still in the queue: its worker was spawned and has run.
C16_Witness ==
    /\ teardown = "returned"
    /\ nStarts = 2
    /\ qSize = 2
    /\ slots[1].status = "Failed"

\* C17: when the fetcher of a task that is not complete exits without
\* success, its worker leaves the task Failed, not complete and with a
\* lastError; and no step other than a click on a button takes a Failed task
\* out of downloadQueue.
C17_FailedExitMarksTask ==
    [][/\ \A h \in Handles :
            LET i == workers[h].task.idx
            IN  ( /\ workers[h].pc = "read" /\ workers'[h].pc = "done"
                  /\ i \in 1..qSize
                  /\ slots[i].downloadId = workers[h].taskId
                  /\ slots[i].isActive /\ ~slots[i].isComplete )
                => /\ slots'[i].status = "Failed"
                   /\ ~slots'[i].isComplete
                   /\ ~slots'[i].isActive
                   /\ slots'[i].lastError # ""
       /\ nCalls' = nCalls
            => \A i \in 1..qSize :
                 (slots[i].status = "Failed" /\ ~slots[i].isComplete)
                 => \E j \in 1..qSize' : slots'[j] = slots[i]
      ]_vars

\* C18: every download id that has an entry in activeProcesses has a state
\* with that id in persistentDownloadStates.
C18_ProcessHasState ==
    \A id \in DOMAIN activeProcesses :
        FindState(persistentDownloadStates, id) # 0

\* C19: the calls of UpdateDownloadState, PauseDownload, ResumeDownload and
\* CancelDownload leave at most one state per id in persistentDownloadStates,
\* and an UpdateDownloadState call either appends a state of an id the store
\* did not have or replaces the state of that id, every other state staying
\* as it was and where it was.
C19_UpsertByIdentifier ==
    [][/\ \A i, j \in 1..Len(persistentDownloadStates') :
            persistentDownloadStates'[i].id = persistentDownloadStates'[j].id => i = j
       /\ (lastCall' = "update" /\ nCalls' # nCalls)
            => \/ /\ Len(persistentDownloadStates') = Len(persistentDownloadStates) + 1
                  /\ SubSeq(persistentDownloadStates', 1, Len(persistentDownloadStates))
                         = persistentDownloadStates
                  /\ FindState(persistentDownloadStates,
                         persistentDownloadStates'[Len(persistentDownloadStates')].id) = 0
               \/ /\ Len(persistentDownloadStates') = Len(persistentDownloadStates)
                  /\ \E k \in 1..Len(persistentDownloadStates) :
                       /\ persistentDownloadStates'[k].id = persistentDownloadStates[k].id
                       /\ \A j \in 1..Len(persistentDownloadStates) :
                            j # k => persistentDownloadStates'[j] = persistentDownloadStates[j]
      ]_vars

\* One UpdateDownloadState call was made and the store holds the states of
\* two ids.
C19_Witness ==
    /\ lastCall = "update"
    /\ nCalls = 1
    /\ Len(persistentDownloadStates) = 2

\* C20: whenever a worker writes the fields of its task (at the latest when
\* its fetcher has exited or could not be started), the reference it writes
\* through designates an element of downloadQueue, and that element is the
\* task with the worker's downloadId.
C20_WorkerWritesOwnTask ==
    [][\A h \in Handles :
          ( \/ workers[h].pc = "read" /\ workers'[h].pc \in {"done", "finalUpdate"}
            \/ workers[h].pc = "start" /\ workers'[h].pc = "done" )
          => /\ Live(workers[h].task)
             /\ slots[workers[h].task.idx].downloadId = workers[h].taskId
      ]_vars

\* C21: no thread changes downloadQueue while another thread is inside an
\* access of it: StartDownload's push_back never happens while the scheduler
\* thread is inside its range-for over downloadQueue, holding its iterators.
C21_QueueAccessExclusive ==
    [][nStarts' # nStarts
          => sched.pc \notin {"scan", "execute", "lock", "store"}
      ]_vars

C23_SignalsReachWorker ==
    [][\A i \in 1..qSize :
          LET id == ActionId(slots[i])
          IN  ( /\ nCalls' # nCalls
                /\ qSize' = qSize
                /\ id \in DOMAIN activeProcesses )
              => /\ ( slots[i].isActive /\ ~slots[i].isPaused /\ slots'[i].isPaused )
                    => /\ activeProcesses'[id].shouldStop
                       /\ <<"pause", id>> \in markerFiles'
                 /\ ( ~slots[i].isComplete /\ slots'[i].isComplete )
                    => /\ activeProcesses'[id].shouldTerminate
                       /\ <<"cancel", id>> \in markerFiles'
      ]_vars

\* A state with this id is in the store and this flag of it is false.
StateFlagClear(id, flag) ==
    /\ FindState(persistentDownloadStates, id) # 0
    /\ ~persistentDownloadStates[FindState(persistentDownloadStates, id)][flag]

\* C24: a worker whose process entry has shouldStop or shouldTerminate set
\* applies at most the line it was reading when the flag was set.  When the
\* pause (cancel) file of the id is there and the state of the id is not
\* paused (complete) any more, the worker has pushed the state of a line
\* since the flag was set: it then reads no further line.
C24_FlagStopsReader ==
    [][\A h \in Handles : \A id \in DOMAIN activeProcesses :
          ( /\ activeProcesses[id].thread = h
            /\ workers[h].pc = "read"
            /\ \/ /\ activeProcesses[id].shouldStop
                  /\ <<"pause", id>> \in markerFiles
                  /\ StateFlagClear(id, "isPaused")
               \/ /\ activeProcesses[id].shouldTerminate
                  /\ <<"cancel", id>> \in markerFiles
                  /\ StateFlagClear(id, "isComplete") )
          => workers'[h].pc \notin {"read", "update"} \/ workers'[h] = workers[h]
      ]_vars

\* C25: when a worker has made its task complete on the exit of the fetcher
\* and its UpdateDownloadState call has returned, the state file holds a
\* record of the worker's id with isComplete true, however recently the
\* last save was made.
C25_CompletionFlushed ==
    \A h \in Handles :
        workers[h].pc = "refresh"
        => /\ stateFile.kind = "json"
           /\ \E k \in 1..Len(stateFile.downloads) :
                /\ stateFile.downloads[k].id = workers[h].taskId
                /\ stateFile.downloads[k].isComplete

\* A task that was paused and resumed waits to be activated: its row says
\* "Resuming" and it is neither active, paused nor complete.
ResumedWaiting ==
    \E i \in 1..qSize :
        /\ slots[i].status = "Resuming"
        /\ ~slots[i].isActive /\ ~slots[i].isPaused /\ ~slots[i].isComplete

\* C26: a download that was paused and then resumed does not wait for ever:
\* the scheduler eventually activates its task (or the user cancels it),
\* given that the scheduler and the workers keep running.
C26_ResumedIsActivated ==
    ResumedWaiting ~> (~ResumedWaiting \/ crashed)

\* C27: whenever the scheduler activates a task of downloadQueue, no task at
\* an earlier position is ready (not active, not paused, not complete) and
\* left waiting.
C27_FifoAmongReady ==
    [][( /\ sched.pc = "execute" /\ sched'.pc = "lock"
         /\ Live(sched.it) )
          => \A j \in 1..(sched.it.idx - 1) :
               slots[j].isActive \/ slots[j].isPaused \/ slots[j].isComplete
      ]_vars

\* C28: every call of LoadDownloadStates, PauseDownload, ResumeDownload and
\* CancelDownload returns, for every id and every store: no call leaves its
\* thread waiting for downloadStateMutex, which the thread itself holds.
C28_NoSelfDeadlock ==
    [][nCalls' # nCalls
          => /\ ~uiHung'
             /\ downloadStateMutex' = "free"
      ]_vars

\* C29: a thread that waits in join() for a worker thread does not hold
\* downloadStateMutex while that worker is about to lock the mutex in
\* UpdateDownloadState: neither ~Library in its join loop nor the scheduler
\* in the move assignment of the entry it replaces.
C29_JoinerHoldsNoNeededMutex ==
    \A h \in Handles :
        workers[h].pc \in {"update", "finalUpdate"}
        => /\ ~( /\ teardown = "join"
                 /\ \E id \in DOMAIN activeProcesses : activeProcesses[id].thread = h )
           /\ ~( /\ sched.pc = "store"
                 /\ sched.taskId \in DOMAIN activeProcesses
                 /\ activeProcesses[sched.taskId].thread = h )

\* C30: StartDownloadManager starts a scheduler thread only when
\* downloadThread holds no thread: a scheduler thread that stopped itself
\* has been joined or released before the handle is assigned again, so the
\* restart does not end the process.
C30_RestartAfterJoin ==
    [][(~downloadManagerRunning /\ downloadManagerRunning')
          => /\ sched.pc = "none"
             /\ ~crashed'
      ]_vars

====
